---- MODULE Spec2Model ----
(***************************************************************************)
(* The Tweet Generator view of client/src/App.jsx: the four pieces of      *)
(* React state of App, the onChange handler of the textarea, and the async *)
(* click handler handleGenerateTweet with its two suspension points        *)
(* (await fetch, await response.json()).                                   *)
(***************************************************************************)
EXTENDS Integers, Sequences, FiniteSets, TLC

VARIABLES
  topic,           \* useState("")    : a sequence of characters
  generatedTweet,  \* useState("")    : a JavaScript value
  isLoading,       \* useState(false)
  error,           \* useState(null)  : a JavaScript value
  calls,           \* invocations of handleGenerateTweet suspended at an await
  event,           \* history: the step taken last
  exchange         \* history: the outcome of the exchange that resolved last

vars == <<topic, generatedTweet, isLoading, error, calls, event, exchange>>

----------------------------------------------------------------------------
(* Bounds of the model *)

MaxTopicLen == 2

----------------------------------------------------------------------------
(* JavaScript values: null, undefined and strings *)

Null == [t |-> "null", s |-> ""]
Undefined == [t |-> "undefined", s |-> ""]
Str(x) == [t |-> "string", s |-> x]

\* the truthiness test of `!x`, `if (x)` and `x && ...`
truthy(v) == v.t = "string" /\ v.s # ""

\* characters a topic is typed from; Whitespace is what String.trim strips
Whitespace == {" ", "\n"}
Char == Whitespace \cup {"a"}

RECURSIVE SeqsUpTo(_)
SeqsUpTo(n) ==
  IF n = 0 THEN {<<>>}
  ELSE LET shorter == SeqsUpTo(n - 1)
       IN  shorter \cup {Append(s, c) : s \in {x \in shorter : Len(x) = n - 1}, c \in Char}

Topics == SeqsUpTo(MaxTopicLen)

RECURSIVE trimStart(_)
trimStart(s) ==
  IF s # <<>> /\ Head(s) \in Whitespace THEN trimStart(Tail(s)) ELSE s

RECURSIVE trimEnd(_)
trimEnd(s) ==
  IF s # <<>> /\ s[Len(s)] \in Whitespace
  THEN trimEnd(SubSeq(s, 1, Len(s) - 1))
  ELSE s

trimNothing(s) == s

\* topic.trim()
trim(s) == trimEnd(trimStart(s))

----------------------------------------------------------------------------
(* What the remote end can answer *)

ErrorFields == {Undefined, Str(""), Str("quota exceeded")}
TweetFields == {Undefined, Str(""), Str("Solar is the future"), Str("Hello")}

\* the body of a response: not JSON, the JSON value null, or a JSON object
Bodies ==
  {[kind |-> k, error |-> Undefined, tweet |-> Undefined] : k \in {"invalid", "null"}}
    \cup {[kind |-> "object", error |-> e, tweet |-> t] : e \in ErrorFields, t \in TweetFields}

Responses == [ok : BOOLEAN, body : Bodies]

NoResponse == [ok |-> FALSE, body |-> [kind |-> "none", error |-> Undefined, tweet |-> Undefined]]
NoExchange == [transport |-> "none", response |-> NoResponse]

----------------------------------------------------------------------------
(* Messages *)

ValidationError == Str("Please enter a topic.")
GenericError == Str("Failed to generate tweet. Is the backend server running?")

----------------------------------------------------------------------------

Init ==
  /\ topic = <<>>
  /\ generatedTweet = Str("")
  /\ isLoading = FALSE
  /\ error = Null
  /\ calls = <<>>
  /\ event = "init"
  /\ exchange = NoExchange

Remove(s, i) == SubSeq(s, 1, i - 1) \o SubSeq(s, i + 1, Len(s))

neverDisabled == FALSE

\* disabled={isLoading} of the textarea and of the button
disabled == isLoading

\* onChange={(e) => setTopic(e.target.value)}
onChange(v) ==
  /\ ~disabled
  /\ topic' = v
  /\ event' = "edit"
  /\ UNCHANGED <<generatedTweet, isLoading, error, calls, exchange>>

\* handleGenerateTweet with an empty topic: the early return
validationReject ==
  /\ ~disabled
  /\ trim(topic) = <<>>
  /\ error' = ValidationError
  /\ event' = "invalid"
  /\ UNCHANGED <<topic, generatedTweet, isLoading, calls, exchange>>

startExchangeKeepError ==
  /\ ~disabled
  /\ trim(topic) # <<>>
  /\ isLoading' = TRUE
  /\ generatedTweet' = Str("")
  /\ calls' = Append(calls, [pc |-> "fetch", topic |-> topic, response |-> NoResponse])
  /\ event' = "submit"
  /\ UNCHANGED <<topic, error, exchange>>

startExchangeNoLoading ==
  /\ ~disabled
  /\ trim(topic) # <<>>
  /\ error' = Null
  /\ generatedTweet' = Str("")
  /\ calls' = Append(calls, [pc |-> "fetch", topic |-> topic, response |-> NoResponse])
  /\ event' = "submit"
  /\ UNCHANGED <<topic, isLoading, exchange>>

\* handleGenerateTweet with a topic: up to the await of fetch
startExchange ==
  /\ ~disabled
  /\ trim(topic) # <<>>
  /\ isLoading' = TRUE
  /\ error' = Null
  /\ generatedTweet' = Str("")
  /\ calls' = Append(calls, [pc |-> "fetch", topic |-> topic, response |-> NoResponse])
  /\ event' = "submit"
  /\ UNCHANGED <<topic, exchange>>

catchMessageOfError(e) == e

\* catch (e) { setError("Failed to generate tweet. ...") }: e is only logged
catchMessage(e) == GenericError

catchOnly(e) ==
  /\ error' = catchMessage(e)
  /\ UNCHANGED <<generatedTweet, isLoading>>

\* the catch block followed by the finally block
catchFinally(e) ==
  /\ error' = catchMessage(e)
  /\ isLoading' = FALSE
  /\ UNCHANGED generatedTweet

\* the try block's last statement followed by the finally block
setTweetFinally(data) ==
  /\ generatedTweet' = data.tweet
  /\ isLoading' = FALSE
  /\ UNCHANGED error

\* fetch() rejects: no response at all
fetchRejects(i) ==
  /\ calls[i].pc = "fetch"
  /\ catchFinally(Str("TypeError: Failed to fetch"))
  /\ calls' = Remove(calls, i)
  /\ event' = "settled"
  /\ exchange' = [transport |-> "failed", response |-> NoResponse]
  /\ UNCHANGED topic

\* fetch() resolves with response r: !response.ok throws, else await response.json()
fetchResolves(i, r) ==
  /\ calls[i].pc = "fetch"
  /\ IF ~r.ok
     THEN /\ catchFinally(Str("HTTP error!"))
          /\ calls' = Remove(calls, i)
          /\ event' = "settled"
          /\ exchange' = [transport |-> "ok", response |-> r]
     ELSE /\ calls' = [calls EXCEPT ![i].pc = "json", ![i].response = r]
          /\ event' = "response"
          /\ UNCHANGED <<generatedTweet, isLoading, error, exchange>>
  /\ UNCHANGED topic

thrownAlsoWithoutTweet(body) ==
  IF body.kind = "invalid" THEN Str("SyntaxError")
  ELSE IF body.kind = "null" THEN Str("TypeError")
  ELSE IF truthy(body.error) THEN body.error
  ELSE IF ~truthy(body.tweet) THEN Str("No tweet")
  ELSE Undefined

\* what `await response.json()` and `if (data.error) throw new Error(data.error)`
\* throw for a body: the message, or Undefined when nothing is thrown
thrown(body) ==
  IF body.kind = "invalid" THEN Str("SyntaxError")
  ELSE IF body.kind = "null" THEN Str("TypeError")
  ELSE IF truthy(body.error) THEN body.error
  ELSE Undefined

\* response.json() settles: the rest of the try block, catch and finally
jsonSettles(i) ==
  /\ calls[i].pc = "json"
  /\ LET body == calls[i].response.body
     IN  IF thrown(body) # Undefined
         THEN catchFinally(thrown(body))
         ELSE setTweetFinally(body)
  /\ calls' = Remove(calls, i)
  /\ event' = "settled"
  /\ exchange' = [transport |-> "ok", response |-> calls[i].response]
  /\ UNCHANGED topic

\* onClick={handleGenerateTweet}
handleGenerateTweet == validationReject \/ startExchange

\* the continuations of a suspended handleGenerateTweet
Resolve ==
  \/ \E i \in DOMAIN calls : fetchRejects(i)
  \/ \E i \in DOMAIN calls : \E r \in Responses : fetchResolves(i, r)
  \/ \E i \in DOMAIN calls : jsonSettles(i)

Next ==
  \/ \E v \in Topics : onChange(v)
  \/ handleGenerateTweet
  \/ Resolve

Spec == Init /\ [][Next]_vars

\* every outstanding exchange eventually resolves (the remote end answers or
\* the connection fails)
LiveSpec == Init /\ [][Next]_vars /\ WF_vars(Resolve)

----------------------------------------------------------------------------
(* What is rendered *)

\* {error && (...)}
errorPanelShown == truthy(error)

\* {generatedTweet && (...)}
resultPanelShown == truthy(generatedTweet)

\* RequestStatus, derived from the loading flag and error/result presence
RequestStatus ==
  IF isLoading THEN "Loading"
  ELSE IF errorPanelShown THEN "Failed"
  ELSE IF resultPanelShown THEN "Succeeded"
  ELSE "Idle"

----------------------------------------------------------------------------
(* Properties *)

AllWhitespace(s) == \A k \in DOMAIN s : s[k] \in Whitespace

\* the exchange that resolved last got a response, and its body
responded == exchange.transport = "ok"
settledBody == exchange.response.body

\* C1: an exchange whose body carries an application-level error field E
\* (any HTTP status) leaves error = E verbatim and the result empty.
C1_ApplicationErrorVerbatim ==
  (event = "settled" /\ responded /\ settledBody.kind = "object" /\ truthy(settledBody.error))
    => (error = settledBody.error /\ generatedTweet = Str(""))

\* C2: once an exchange has completed and none is outstanding, the error
\* panel and the result panel are never both shown.
C2_PanelsExclusive ==
  (exchange # NoExchange /\ calls = <<>>) => ~(errorPanelShown /\ resultPanelShown)

\* C3: a click with an empty or whitespace-only topic starts no exchange,
\* sets error to "Please enter a topic." and leaves loading false.
C3_EmptyTopicRejected ==
  [][(event' \in {"invalid", "submit"} /\ ~disabled /\ AllWhitespace(topic))
       => (calls' = calls /\ error' = ValidationError /\ ~isLoading' /\ event' = "invalid")]_vars

C3_Witness ==
  /\ event = "invalid"
  /\ topic # <<>> /\ AllWhitespace(topic)
  /\ error = ValidationError
  /\ ~isLoading /\ calls = <<>>

\* C4: a 2xx exchange with body {"tweet": T} and no error field leaves
\* result = T exactly and error empty.
C4_SuccessShowsTweet ==
  (/\ event = "settled" /\ responded /\ exchange.response.ok
   /\ settledBody.kind = "object"
   /\ settledBody.error = Undefined
   /\ settledBody.tweet.t = "string")
    => (generatedTweet = settledBody.tweet /\ error = Null)

C4_Witness ==
  /\ event = "settled" /\ responded /\ exchange.response.ok
  /\ settledBody.kind = "object"
  /\ settledBody.error = Undefined
  /\ settledBody.tweet = Str("Solar is the future")
  /\ generatedTweet = Str("Solar is the future")
  /\ error = Null

\* C5: an exchange that ends with a non-2xx status, a network failure or an
\* unparseable body leaves error = the one generic message and the result empty.
C5_TransportErrorGeneric ==
  (/\ event = "settled"
   /\ \/ exchange.transport = "failed"
      \/ responded /\ ~exchange.response.ok
      \/ responded /\ settledBody.kind = "invalid")
    => (error = GenericError /\ generatedTweet = Str(""))

C5_Witness ==
  /\ event = "settled" /\ responded /\ ~exchange.response.ok
  /\ error = GenericError
  /\ generatedTweet = Str("")

\* C6: loading is true exactly while a started exchange has not resolved; it
\* is false initially, after a rejected empty submission and after every
\* resolved exchange.
C6_LoadingIffOutstanding ==
  /\ isLoading <=> calls # <<>>
  /\ event \in {"init", "invalid", "settled"} => ~isLoading

C6_Witness ==
  /\ isLoading
  /\ Len(calls) = 1 /\ calls[1].pc = "json"
  /\ exchange # NoExchange

\* C7: at most one exchange is outstanding at a time, and while one is
\* outstanding the submit control is disabled.
C7_SingleFlight ==
  /\ Len(calls) <= 1
  /\ calls # <<>> => disabled

C7_Witness ==
  /\ Len(calls) = 1 /\ disabled
  /\ exchange # NoExchange

\* C8: every exchange that resolves leaves loading false and the submit
\* control enabled, and (exchanges eventually resolving) Loading always ends.
C8_LoadingEnds ==
  /\ [][Len(calls') < Len(calls) => (~isLoading' /\ ~disabled')]_vars
  /\ isLoading ~> ~isLoading

C8_Witness ==
  /\ event = "settled" /\ exchange.transport = "failed"
  /\ ~isLoading /\ ~disabled
  /\ RequestStatus = "Failed"

\* C9: the only changes of RequestStatus are Idle -> Loading, Loading ->
\* Succeeded or Failed, Succeeded or Failed -> Loading, and Idle -> Failed.
C9_StatusTransitions ==
  [][RequestStatus' # RequestStatus =>
       <<RequestStatus, RequestStatus'>> \in
         { <<"Idle", "Loading">>, <<"Loading", "Succeeded">>, <<"Loading", "Failed">>,
           <<"Succeeded", "Loading">>, <<"Failed", "Loading">>, <<"Idle", "Failed">> }]_vars

\* C10 as stated: a 2xx exchange with a parseable body holding no error field
\* and no (or an empty) tweet ends with loading false, error empty and no
\* result shown.
C10_AnyParseableBody ==
  (/\ event = "settled" /\ responded /\ exchange.response.ok
   /\ settledBody.kind # "invalid"
   /\ settledBody.error = Undefined
   /\ settledBody.tweet \in {Undefined, Str("")})
    => (~isLoading /\ error = Null /\ ~resultPanelShown)

\* C10 amended: a 2xx exchange with a JSON body other than null, holding no
\* error field and no (or an empty) tweet, ends with loading false, error
\* empty and no result shown: a state that renders as Idle.
C10_ObjectWithoutTweet ==
  (/\ event = "settled" /\ responded /\ exchange.response.ok
   /\ settledBody.kind = "object"
   /\ settledBody.error = Undefined
   /\ settledBody.tweet \in {Undefined, Str("")})
    => (~isLoading /\ error = Null /\ ~resultPanelShown /\ RequestStatus = "Idle")

C10_Witness ==
  /\ event = "settled" /\ responded /\ exchange.response.ok
  /\ settledBody.kind = "object"
  /\ settledBody.error = Undefined
  /\ settledBody.tweet = Undefined
  /\ generatedTweet = Undefined
  /\ RequestStatus = "Idle"

====
